---- MODULE Spec2Model ----
(***************************************************************************)
(* A model of wradex.RADEX (src/wradex/radex.py): the LAMDA molecular-data *)
(* parser run by the constructor, and the parameter sweep run by           *)
(* RADEX.__call__ around the external solver and its two fixed-path files. *)
(*                                                                         *)
(* Text is modelled down to whitespace-separated tokens.  A token is a     *)
(* sequence of atoms; an atom is a decimal digit, a sign, or a word.  A    *)
(* line is the sequence of its tokens (what str.split() returns), and a    *)
(* stream or file is a sequence of lines.  Numbers are integer valued.     *)
(***************************************************************************)
EXTENDS Integers, Sequences, FiniteSets, TLC

VARIABLES
    \* ---- the molecular-data stream read by the constructor
    stream,          \* the lines of the moldata file
    fpos,            \* lines consumed so far (the position of f)
    ppc,             \* where RADEX.__init__ is
    perr,            \* the exception that ended the constructor, or ""
    eofReads,        \* readline() calls made at end-of-stream (saturating)
    levelsEnd,       \* position of f when _get_energy_levels returned, or -1
    \* ---- the calculator's fields
    energy_levels,   \* self._energy_levels
    transitions,     \* self._transitions
    default_params,  \* self.params['default_params']
    radex_input,     \* self.params['radex_input']: the template's placeholders
    \* ---- the solver's two fixed-path files
    outFile,         \* RADEX_OUTPUT: [exists, lines]
    logFile,         \* RADEX_LOG: whether it exists
    \* ---- RADEX.__call__
    cpc,             \* "idle", "sweep" (the loop at line 143) or "reading" (line 219)
    ncalls,          \* calls begun so far
    call,            \* the arguments of the call begun last
    status,          \* of that call: "none", "running", "returned" or "raised"
    cerr,            \* the exception that ended it, or ""
    params,          \* the local params, once the grid parameters are popped
    gparams,         \* the gridded parameters
    gshape,          \* the grid's shape
    ncell,           \* grid cells completed by the loop at line 143
    outputs,         \* the local outputs
    result,          \* what the call returned
    \* ---- the environment and the history of the run
    memo,            \* the solver's behaviour on the inputs it has been given
    cells,           \* per solver run of this call: its cell, its input, how the
                     \* solver behaved, the files it found, whether a result
                     \* line was parsed, the line
    outEofReads,     \* readline() calls made at the end of RADEX_OUTPUT (saturating)
    filesAtCall,     \* the two files as they were when the call began
    prev             \* the call before this one: arguments, status, result

parserVars == <<stream, fpos, ppc, perr, eofReads, levelsEnd>>
fieldVars == <<energy_levels, transitions, default_params, radex_input>>
fileVars == <<outFile, logFile>>
callVars == <<cpc, ncalls, call, status, cerr, params, gparams, gshape, ncell, outputs, result>>
histVars == <<memo, cells, outEofReads, filesAtCall, prev>>

callSide == <<default_params, radex_input, fileVars, callVars, histVars>>

vars == <<parserVars, fieldVars, fileVars, callVars, histVars>>

(***************************************************************************)
(* Bounds of the model.                                                    *)
(***************************************************************************)
MaxLevels == 3
MaxTrans == 2
MaxEofReads == 2
MaxLen == 2
MaxCells == 4
MaxCalls == 2

\* f_rest is in GHz and the window around it is 0.001 GHz wide on each side:
\* frequencies handed to the solver are counted in thousandths of a GHz.
Milli == 1000

(***************************************************************************)
(* Numbers and text.                                                       *)
(***************************************************************************)
Min(a, b) == IF a <= b THEN a ELSE b

DigitVal == ("0" :> 0) @@ ("1" :> 1) @@ ("2" :> 2) @@ ("3" :> 3) @@ ("4" :> 4)
            @@ ("5" :> 5) @@ ("6" :> 6) @@ ("7" :> 7) @@ ("8" :> 8) @@ ("9" :> 9)

DigitChr == <<"0", "1", "2", "3", "4", "5", "6", "7", "8", "9">>

\* The digits of a literal, without its sign.
Unsigned(tok) == IF tok # <<>> /\ tok[1] = "-" THEN Tail(tok) ELSE tok

\* Whether float(tok) / int(tok) succeeds (no ValueError).
IsNumber(tok) ==
    /\ Unsigned(tok) # <<>>
    /\ \A i \in DOMAIN Unsigned(tok) : Unsigned(tok)[i] \in DOMAIN DigitVal

RECURSIVE DigitsValue(_)
DigitsValue(ds) ==
    IF ds = <<>> THEN 0
    ELSE 10 * DigitsValue(SubSeq(ds, 1, Len(ds) - 1)) + DigitVal[ds[Len(ds)]]

\* float(tok) / int(tok) of a literal that IsNumber.
NumberOf(tok) ==
    IF tok[1] = "-" THEN 0 - DigitsValue(Unsigned(tok)) ELSE DigitsValue(tok)

RECURSIVE NatStr(_)
NatStr(n) ==
    IF n < 10 THEN <<DigitChr[n + 1]>>
    ELSE Append(NatStr(n \div 10), DigitChr[(n % 10) + 1])

\* str(n): the decimal literal of an integer.
NumStr(n) == IF n < 0 THEN <<"-">> \o NatStr(0 - n) ELSE NatStr(n)

\* str.lower() of one atom.
LowerAtom(a) ==
    CASE a \in {"ENERGY", "Energy"} -> "energy"
      [] a \in {"LEVELS", "Levels"} -> "levels"
      [] a \in {"RADIATIVE", "Radiative"} -> "radiative"
      [] a \in {"TRANSITIONS", "Transitions"} -> "transitions"
      [] a \in {"CALCULATION", "Calculation"} -> "calculation"
      [] a \in {"FINISHED", "Finished"} -> "finished"
      [] OTHER -> a

LowerTok(tok) == [i \in DOMAIN tok |-> LowerAtom(tok[i])]

\* re.compile('<w1> <w2>', re.IGNORECASE).search(line): the two words, in
\* any letter case, next to each other on the line.
PatSearch(pat, line) ==
    \E i \in 1..(Len(line) - 1) :
        /\ LowerTok(line[i]) = <<pat[1]>>
        /\ LowerTok(line[i + 1]) = <<pat[2]>>

PatEnergyLevels == <<"energy", "levels">>
PatTransitions == <<"radiative", "transitions">>

\* f.readline().split() at position pos: no token at end-of-stream.
ReadLine(s, pos) == IF pos < Len(s) THEN s[pos + 1] ELSE <<>>

\* The position of f after one readline().
Advance(s, pos) == Min(pos + 1, Len(s))

\* A physical quantity: a number tagged with a unit.
Quantity(v, unit) == [value |-> v, unit |-> unit]

(***************************************************************************)
(* RADEX._get_energy_levels and RADEX._get_transitions after their header  *)
(* scan: the count line, the discarded column-header line, the body lines. *)
(* Each returns [err, table, pos]: the exception raised ("" for none), the *)
(* table built and the position of f afterwards.                           *)
(***************************************************************************)
NoTable == <<>>

\* The exception lines 179-182 raise on one level line, "" for none.
LevelLineError(elems) ==
    IF Len(elems) < 2 THEN "IndexError"
    ELSE IF ~IsNumber(elems[2]) THEN "ValueError"
    ELSE IF Len(elems) < 3 THEN "IndexError"
    ELSE IF ~IsNumber(elems[3]) THEN "ValueError"
    ELSE IF Len(elems) < 4 THEN "IndexError"
    ELSE ""

\* EnergyLevelOf reading each field one column to the left.
EnergyLevelShifted(elems) ==
    [energy |-> Quantity(NumberOf(elems[1]), "1/cm"),
     weight |-> Quantity(NumberOf(elems[2]), ""),
     level  |-> elems[3]]

EnergyLevelOf(elems) ==
    [energy |-> Quantity(NumberOf(elems[2]), "1/cm"),
     weight |-> Quantity(NumberOf(elems[3]), ""),
     level  |-> elems[4]]

\* int(f.readline()) succeeds: the line is one integer literal.
IsCountLine(line) == Len(line) = 1 /\ IsNumber(line[1])

\* range(n) of a count n: empty when n is negative.
RangeOf(n) == 1..n

FirstOf(S) == CHOOSE i \in S : \A j \in S : i <= j

GetEnergyLevelsBody(s, pos) ==
    LET cnt == ReadLine(s, pos) IN
    IF ~IsCountLine(cnt)
    THEN [err |-> "ValueError", table |-> NoTable, pos |-> Advance(s, pos)]
    ELSE
      LET n == NumberOf(cnt[1])
          elemsOf(i) == ReadLine(s, pos + 1 + i)
          bad == {i \in RangeOf(n) : LevelLineError(elemsOf(i)) # ""}
      IN IF bad = {}
         THEN [err |-> "",
               table |-> [i \in RangeOf(n) |-> EnergyLevelOf(elemsOf(i))],
               pos |-> Min(pos + 2 + (IF n > 0 THEN n ELSE 0), Len(s))]
         ELSE [err |-> LevelLineError(elemsOf(FirstOf(bad))),
               table |-> NoTable,
               pos |-> Min(pos + 2 + FirstOf(bad), Len(s))]

\* The exception lines 200-204 raise on one transition line, "" for none.
TransLineError(elems, levels) ==
    IF Len(elems) < 2 THEN "IndexError"
    ELSE IF ~IsNumber(elems[2]) THEN "ValueError"
    ELSE IF NumberOf(elems[2]) \notin DOMAIN levels THEN "KeyError"
    ELSE IF Len(elems) < 3 THEN "IndexError"
    ELSE IF ~IsNumber(elems[3]) THEN "ValueError"
    ELSE IF NumberOf(elems[3]) \notin DOMAIN levels THEN "KeyError"
    ELSE IF Len(elems) < 4 THEN "IndexError"
    ELSE IF ~IsNumber(elems[4]) THEN "ValueError"
    ELSE IF Len(elems) < 5 THEN "IndexError"
    ELSE IF ~IsNumber(elems[5]) THEN "ValueError"
    ELSE IF Len(elems) < 6 THEN "IndexError"
    ELSE IF ~IsNumber(elems[6]) THEN "ValueError"
    ELSE ""

\* '{}-{}'.format(upper, lower)
FormatKey(upper, lower) == upper \o <<"-">> \o lower

\* TransKeyOf with the two levels the other way round.
TransKeySwapped(elems, levels) ==
    FormatKey(levels[NumberOf(elems[3])].level, levels[NumberOf(elems[2])].level)

\* The key line 206 builds for one transition line.
TransKeyOf(elems, levels) ==
    FormatKey(levels[NumberOf(elems[2])].level, levels[NumberOf(elems[3])].level)

TransitionOf(elems) ==
    [A_ul   |-> Quantity(NumberOf(elems[4]), "1/s"),
     f_rest |-> Quantity(NumberOf(elems[5]), "GHz"),
     E_u    |-> Quantity(NumberOf(elems[6]), "K")]

\* transitions[key] = {...} for lines 1..n in order: a later line with the
\* key of an earlier one replaces its entry.
RECURSIVE PutTransitions(_, _, _)
PutTransitions(n, rows, levels) ==
    IF n <= 0 THEN NoTable
    ELSE LET before == PutTransitions(n - 1, rows, levels)
             key == TransKeyOf(rows[n], levels)
         IN (key :> TransitionOf(rows[n])) @@ before

GetTransitionsBody(s, pos, levels) ==
    LET cnt == ReadLine(s, pos) IN
    IF ~IsCountLine(cnt)
    THEN [err |-> "ValueError", table |-> NoTable, pos |-> Advance(s, pos)]
    ELSE
      LET n == NumberOf(cnt[1])
          elemsOf(i) == ReadLine(s, pos + 1 + i)
          bad == {i \in RangeOf(n) : TransLineError(elemsOf(i), levels) # ""}
      IN IF bad = {}
         THEN [err |-> "",
               table |-> PutTransitions(n, [i \in RangeOf(n) |-> elemsOf(i)], levels),
               pos |-> Min(pos + 2 + (IF n > 0 THEN n ELSE 0), Len(s))]
         ELSE [err |-> TransLineError(elemsOf(FirstOf(bad)), levels),
               table |-> NoTable,
               pos |-> Min(pos + 2 + FirstOf(bad), Len(s))]

(***************************************************************************)
(* Molecular-data streams: the LAMDA files built from a molecule's levels  *)
(* and transitions, in two layouts, and every truncation of them.          *)
(***************************************************************************)
W(word) == <<word>>

Labels == {<<"0">>, <<"1">>}

SeqsUpTo(S, n) == UNION {[1..k -> S] : k \in 0..n}

\* Radiative transitions name an upper level of the file and the level
\* below it (a ladder, as the rotational lines of CO).
LevelPairs(n) == {ul \in (1..n) \X (1..n) : ul[1] = ul[2] + 1}

Molecules ==
    {[levels |-> lv, trans |-> tr] :
        lv \in SeqsUpTo(Labels, MaxLevels), tr \in SeqsUpTo(LevelPairs(MaxLevels), MaxTrans)}

LevelLine(i, label) == <<NumStr(i), NumStr(2 * i * (i - 1)), NumStr(2 * i - 1), label>>

TransLine(j, ul) ==
    <<NumStr(j), NumStr(ul[1]), NumStr(ul[2]), NumStr(7), NumStr(115 * ul[1] - ul[2]),
      NumStr(5 * ul[1])>>

MolStream(layout, mol) ==
    (IF layout = 1 THEN <<>> ELSE << <<W("!MOLECULE")>>, <<W("CO")>> >>)
    \o << IF layout = 1 THEN <<W("!NUMBER"), W("OF"), W("ENERGY"), W("LEVELS")>>
          ELSE <<W("!Number"), W("of"), W("Energy"), W("Levels")>> >>
    \o << <<NumStr(Len(mol.levels))>> >>
    \o << <<W("!LEVEL"), W("+"), W("ENERGIES"), W("+"), W("WEIGHT"), W("+"), W("J")>> >>
    \o [i \in 1..Len(mol.levels) |-> LevelLine(i, mol.levels[i])]
    \o << IF layout = 1 THEN <<W("!NUMBER"), W("OF"), W("RADIATIVE"), W("TRANSITIONS")>>
          ELSE <<W("!number"), W("of"), W("radiative"), W("transitions")>> >>
    \o << <<NumStr(Len(mol.trans))>> >>
    \o << <<W("!TRANS"), W("+"), W("UP"), W("+"), W("LOW"), W("+"), W("FREQ")>> >>
    \o [j \in 1..Len(mol.trans) |-> TransLine(j, mol.trans[j])]
    \o << <<W("!NUMBER"), W("OF"), W("COLL"), W("PARTNERS")>> >>

\* A molecule whose transitions name levels the file lists.
ValidMolecule(mol) ==
    \A j \in DOMAIN mol.trans : mol.trans[j][1] <= Len(mol.levels)

WellFormedStreams == {MolStream(l, m) : l \in {1, 2}, m \in {x \in Molecules : ValidMolecule(x)}}

Prefixes(s) == {SubSeq(s, 1, k) : k \in 0..Len(s)}

Streams == UNION {Prefixes(MolStream(l, m)) : l \in {1, 2}, m \in Molecules}

(***************************************************************************)
(* RADEX.__init__, lines 86-91: one step per readline() of a header scan,  *)
(* one step per section body.                                              *)
(***************************************************************************)
\* One iteration of the loop at lines 171-172.
ScanEnergyLevelsHeader ==
    /\ ppc = "levels_scan"
    /\ fpos' = Advance(stream, fpos)
    /\ eofReads' = IF fpos >= Len(stream) THEN Min(eofReads + 1, MaxEofReads) ELSE eofReads
    /\ ppc' = IF PatSearch(PatEnergyLevels, ReadLine(stream, fpos))
              THEN "levels_body" ELSE "levels_scan"
    /\ UNCHANGED <<stream, perr, levelsEnd, energy_levels, transitions, callSide>>

\* Lines 174-186, and the assignment at line 88.
ReadEnergyLevels ==
    /\ ppc = "levels_body"
    /\ LET r == GetEnergyLevelsBody(stream, fpos) IN
        /\ fpos' = r.pos
        /\ perr' = r.err
        /\ ppc' = IF r.err = "" THEN "trans_scan" ELSE "failed"
        /\ energy_levels' = r.table
        /\ levelsEnd' = IF r.err = "" THEN r.pos ELSE levelsEnd
    /\ UNCHANGED <<stream, eofReads, transitions, callSide>>

\* One iteration of the loop at lines 191-192.
ScanTransitionsHeader ==
    /\ ppc = "trans_scan"
    /\ fpos' = Advance(stream, fpos)
    /\ eofReads' = IF fpos >= Len(stream) THEN Min(eofReads + 1, MaxEofReads) ELSE eofReads
    /\ ppc' = IF PatSearch(PatTransitions, ReadLine(stream, fpos))
              THEN "trans_body" ELSE "trans_scan"
    /\ UNCHANGED <<stream, perr, levelsEnd, energy_levels, transitions, callSide>>

\* Lines 194-209, and the assignments at lines 89 and 91.
ReadTransitions ==
    /\ ppc = "trans_body"
    /\ LET r == GetTransitionsBody(stream, fpos, energy_levels) IN
        /\ fpos' = r.pos
        /\ perr' = r.err
        /\ ppc' = IF r.err = "" THEN "constructed" ELSE "failed"
        /\ transitions' = r.table
    /\ UNCHANGED <<stream, eofReads, levelsEnd, energy_levels, callSide>>

(***************************************************************************)
(* The configuration read at lines 30-50 (config.yaml), cut down to two    *)
(* grid parameters and two output quantities.                              *)
(***************************************************************************)
\* A scalar quantity is Quantity(v, unit); an array quantity carries the
\* values of a one-dimensional array.
QArray(vs, unit) == [values |-> vs, unit |-> unit]
Text(t) == [text |-> t]

\* The keys of RADEX_PARAMS, in the order the OrderedDict iterates them.
ParamOrder == <<"T_kin", "n_H2">>
ParamKeys == {ParamOrder[i] : i \in DOMAIN ParamOrder}

RADEX_PARAMS == [T_kin |-> Quantity(2, "K"), n_H2 |-> Quantity(1, "mm-3")]
RADEX_IN_UNI == [T_kin |-> "K", n_H2 |-> "cm-3"]

\* The keys of RADEX_OUT_UNI, in order, and their units.
OutOrder == <<"T_ex", "tau">>
OutKeys == {OutOrder[i] : i \in DOMAIN OutOrder}
RADEX_OUT_UNI == [T_ex |-> "K", tau |-> ""]

RADEX_OUTPUT == "radex.out"
RADEX_INPUT == <<"moldata", "output", "f_min", "f_max", "T_kin", "n_H2">>
MOLDATA == "co.dat"

\* astropy units: what a unit measures and its size in the base unit.
UnitDim == ("K" :> "temperature") @@ ("kK" :> "temperature")
           @@ ("cm-3" :> "density") @@ ("mm-3" :> "density")
UnitScale == ("K" :> 1) @@ ("kK" :> 1000) @@ ("cm-3" :> 1) @@ ("mm-3" :> 1000)

\* Quantity.to(unit): fails with UnitConversionError across dimensions.
Convertible(from, to) == UnitDim[from] = UnitDim[to]
ConvertTo(v, from, to) == (v * UnitScale[from]) \div UnitScale[to]

(***************************************************************************)
(* numpy arrays: a shape and a value per index tuple (indices from 0).     *)
(***************************************************************************)
RECURSIVE Prod(_)
Prod(shape) == IF shape = <<>> THEN 1 ELSE Head(shape) * Prod(Tail(shape))

MaxOf(shape) == IF shape = <<>> THEN 0 ELSE CHOOSE m \in {shape[i] : i \in DOMAIN shape} :
                                              \A i \in DOMAIN shape : shape[i] <= m

Indices(shape) ==
    {t \in [DOMAIN shape -> 0..(MaxOf(shape) - 1)] : \A i \in DOMAIN shape : t[i] < shape[i]}

\* Unravel with the first axis varying fastest (column-major order).
UnravelColumnMajor(n, shape) ==
    [i \in DOMAIN shape |-> (n \div Prod(SubSeq(shape, 1, i - 1))) % shape[i]]

\* The n-th index tuple (n from 0) of product(*map(range, shape)): row-major.
Unravel(n, shape) ==
    [i \in DOMAIN shape |-> (n \div Prod(SubSeq(shape, i + 1, Len(shape)))) % shape[i]]

\* np.meshgrid(*xs, indexing='ij'): one axis per input, scalars included as
\* axes of length 1.
MeshShape(xs) == [i \in DOMAIN xs |-> Len(xs[i])]
MeshGrid(xs, i) == [idx \in Indices(MeshShape(xs)) |-> xs[i][idx[i] + 1]]

\* KeptAxes without the squeeze: every axis is kept.
KeptAxesAll(shape) == [i \in DOMAIN shape |-> i]

\* The axes np.squeeze keeps: those whose length is not 1.
KeptAxes(shape) == SelectSeq([i \in DOMAIN shape |-> i], LAMBDA i : shape[i] # 1)
SqueezeShape(shape) == [j \in DOMAIN KeptAxes(shape) |-> shape[KeptAxes(shape)[j]]]
SqueezeIdx(idx, shape) == [j \in DOMAIN KeptAxes(shape) |-> idx[KeptAxes(shape)[j]]]

\* The index a squeezed index came from.
Unsqueeze(t, shape) ==
    [i \in DOMAIN shape |->
        IF shape[i] = 1 THEN 0
        ELSE t[Cardinality({j \in 1..i : shape[j] # 1})]]

\* np.squeeze(a)
Squeeze(shape, data) ==
    [shape |-> SqueezeShape(shape),
     data  |-> [t \in Indices(SqueezeShape(shape)) |-> data[Unsqueeze(t, shape)]]]

\* np.unique(a): the distinct values of a.
Unique(data) == {data[idx] : idx \in DOMAIN data}

\* A float: a number, or not-a-number.
Num(v) == [nan |-> FALSE, v |-> v]
NaN == [nan |-> TRUE, v |-> 0]

(***************************************************************************)
(* The external solver, as RADEX._calc_radex sees it at line 214: given    *)
(* the text on its standard input it fails to launch, or exits having      *)
(* left its files alone, or having written the log only, or having written *)
(* both files.                                                             *)
(***************************************************************************)
Kinds == {"ok", "stars", "short", "nomarker", "nowrite", "logonly", "launchfail"}

InputField(inp, name) == inp[CHOOSE i \in DOMAIN RADEX_INPUT : RADEX_INPUT[i] = name]

\* The result line: three columns naming the line, then the quantities.
ResultLine(kind, inp) ==
    LET tex == NumStr(NumberOf(InputField(inp, "T_kin")) + 10)
        tau == NumStr(NumberOf(InputField(inp, "n_H2")) + NumberOf(InputField(inp, "f_max")))
    IN CASE kind = "stars" -> <<NumStr(1), W("--"), NumStr(0), <<"*", "*">>, tau>>
         [] kind = "short" -> <<NumStr(1), W("--"), NumStr(0), tex>>
         [] OTHER -> <<NumStr(1), W("--"), NumStr(0), tex, tau, W("extra")>>

\* The output file of one run.  The file of a "stars" run holds a second
\* calculation after the first, as the solver writes when it is told to go
\* on with another one.
SolverLines(kind, inp) ==
    IF kind = "nomarker"
    THEN << <<W("*"), W("Radex"), W("version")>> >>
    ELSE << <<W("*"), W("Radex"), W("version")>>,
            <<W("Calculation"), W("finished"), W("in"), NumStr(12), W("iterations")>>,
            <<W("LINE"), W("T_EX"), W("TAU")>>,
            <<W("(K)")>>,
            ResultLine(kind, inp) >>
         \o (IF kind = "stars"
             THEN << <<W("calculation"), W("finished"), W("in"), NumStr(3), W("iterations")>>,
                     <<W("LINE"), W("T_EX"), W("TAU")>>,
                     <<W("(K)")>>,
                     <<NumStr(1), W("--"), NumStr(0), NumStr(5), NumStr(6)>> >>
             ELSE <<>>)

File(lines) == [exists |-> TRUE, lines |-> lines]
Absent == [exists |-> FALSE, lines |-> <<>>]

\* A result file left by an earlier session that was interrupted.
StaleOutput ==
    File(SolverLines("ok", <<W("old.dat"), W(RADEX_OUTPUT), NumStr(99), NumStr(101),
                             NumStr(7), NumStr(7)>>))

(***************************************************************************)
(* RADEX._calc_radex, lines 211-233.                                       *)
(***************************************************************************)
\* RADEX._remove_units: a Quantity becomes its bare value.
RemoveUnits(d) ==
    [key \in DOMAIN d |->
        IF "unit" \in DOMAIN d[key]
        THEN (IF "values" \in DOMAIN d[key] THEN [numbers |-> d[key].values]
              ELSE [number |-> d[key].value])
        ELSE d[key]]

\* str.format of one value.
TextOf(v) ==
    IF "number" \in DOMAIN v THEN NumStr(v.number)
    ELSE IF "text" \in DOMAIN v THEN W(v.text)
    ELSE W("[...]")

\* self.radex_input.format(**params): extra keys of params are ignored.
FormatInput(template, d) == [i \in DOMAIN template |-> TextOf(d[template[i]])]

PatFinished == <<"calculation", "finished">>

\* Lines consumed when the loop at lines 219-220 ends: up to and including
\* the first line that matches; 0 when no line matches (the loop never ends).
MarkerEnd(lines) ==
    IF \E m \in DOMAIN lines : PatSearch(PatFinished, lines[m])
    THEN FirstOf({m \in DOMAIN lines : PatSearch(PatFinished, lines[m])})
    ELSE 0

\* ParseField leaving the zero of np.zeros where the field does not convert.
ParseFieldOrZero(elems, p) ==
    IF Len(elems) >= p + 3 /\ IsNumber(elems[p + 3])
    THEN Num(NumberOf(elems[p + 3]))
    ELSE Num(0)

\* Lines 228-231 for the p-th output quantity (p from 1): elems[i+3] with
\* i = p - 1, or nan on any exception.
ParseField(elems, p) ==
    IF Len(elems) >= p + 3 /\ IsNumber(elems[p + 3])
    THEN Num(NumberOf(elems[p + 3]))
    ELSE NaN

\* ResultElems with one line discarded instead of two.
ResultElemsSkipOne(lines) == ReadLine(lines, MarkerEnd(lines) + 1)

\* Lines 222-224: two lines discarded, the next one split.
ResultElems(lines) == ReadLine(lines, MarkerEnd(lines) + 2)

ParseOutput(lines) ==
    [q \in OutKeys |->
        ParseField(ResultElems(lines), CHOOSE p \in DOMAIN OutOrder : OutOrder[p] = q)]

\* What run() at line 214 leaves in RADEX_OUTPUT.
FileAfterRun(kind, inp, file) ==
    IF kind \in {"nowrite", "logonly", "launchfail"} THEN file ELSE File(SolverLines(kind, inp))

LogAfterRun(kind, log) == IF kind \in {"nowrite", "launchfail"} THEN log ELSE TRUE

\* LaunchError with the failure swallowed.
LaunchErrorIgnored(kind) == ""

\* The exception run() raises when the solver cannot be launched.
LaunchError(kind) == IF kind = "launchfail" THEN "OSError" ELSE ""

\* CalcRadex with the two files removed whenever it raises, as a cleanup in
\* a finally clause would.
CalcRadexCleaning(kind, inp, file, log) ==
    LET f == FileAfterRun(kind, inp, file) IN
    IF LaunchError(kind) # ""
    THEN [err |-> LaunchError(kind), hung |-> FALSE, file |-> Absent, log |-> FALSE,
          output |-> <<>>, elems |-> <<>>]
    ELSE IF ~f.exists
    THEN [err |-> "FileNotFoundError", hung |-> FALSE, file |-> Absent,
          log |-> FALSE, output |-> <<>>, elems |-> <<>>]
    ELSE IF MarkerEnd(f.lines) = 0
    THEN [err |-> "", hung |-> TRUE, file |-> f, log |-> LogAfterRun(kind, log),
          output |-> <<>>, elems |-> <<>>]
    ELSE [err |-> "", hung |-> FALSE, file |-> f, log |-> LogAfterRun(kind, log),
          output |-> ParseOutput(f.lines), elems |-> ResultElems(f.lines)]

\* The whole of _calc_radex on input text inp against a solver behaving as
\* kind: [err, hung, file, log, output, elems].
CalcRadex(kind, inp, file, log) ==
    LET f == FileAfterRun(kind, inp, file) IN
    IF LaunchError(kind) # ""
    THEN [err |-> LaunchError(kind), hung |-> FALSE, file |-> file, log |-> log,
          output |-> <<>>, elems |-> <<>>]
    ELSE IF ~f.exists
    THEN [err |-> "FileNotFoundError", hung |-> FALSE, file |-> f,
          log |-> LogAfterRun(kind, log), output |-> <<>>, elems |-> <<>>]
    ELSE IF MarkerEnd(f.lines) = 0
    THEN [err |-> "", hung |-> TRUE, file |-> f, log |-> LogAfterRun(kind, log),
          output |-> <<>>, elems |-> <<>>]
    ELSE [err |-> "", hung |-> FALSE, file |-> f, log |-> LogAfterRun(kind, log),
          output |-> ParseOutput(f.lines), elems |-> ResultElems(f.lines)]

(***************************************************************************)
(* RADEX.__call__, lines 120-166.                                          *)
(***************************************************************************)
\* FRestOf with the lookup made tolerant of a missing key, as
\* self._transitions.get(transition, ...) would be.
FRestOrZero(table, transition) ==
    IF transition \in DOMAIN table
    THEN [err |-> "", f_rest |-> table[transition].f_rest]
    ELSE [err |-> "", f_rest |-> Quantity(0, "GHz")]

\* Line 120: the rest frequency of the transition, or KeyError.
FRestOf(table, transition) ==
    IF transition \in DOMAIN table
    THEN [err |-> "", f_rest |-> table[transition].f_rest]
    ELSE [err |-> "KeyError", f_rest |-> Quantity(0, "GHz")]

\* Lines 123-130: the defaults, updated with the overrides, updated with the
\* four keys the call sets itself.
MergeParams(defaults, kwargs, f_rest) ==
    [moldata |-> Text(MOLDATA),
     output  |-> Text(RADEX_OUTPUT),
     f_min   |-> Quantity(f_rest.value * Milli - 1, "GHz/1000"),
     f_max   |-> Quantity(f_rest.value * Milli + 1, "GHz/1000")]
    @@ kwargs @@ defaults

\* What np.meshgrid makes of one parameter: a one-dimensional array.
Flat(q) == IF "values" \in DOMAIN q THEN q.values ELSE <<q.value>>

\* Line 133: the values popped for the grid, in the order of RADEX_PARAMS.
GridInputs(merged) == [i \in DOMAIN ParamOrder |-> Flat(merged[ParamOrder[i]])]

\* Line 133: what is left in params once the grid parameters are popped.
PoppedParams(merged) == [key \in (DOMAIN merged) \ ParamKeys |-> merged[key]]

\* Line 133 raises KeyError: params.pop(key) of a key params does not hold.
PopErrorIn(merged) == \E key \in ParamKeys : key \notin DOMAIN merged

\* DefaultsAfter with params an alias of self.default_params: the updates
\* and the pops of lines 124-133 are made on the stored defaults.
DefaultsAliased(defaults, merged) == PoppedParams(merged)

\* Line 123: params is a deep copy, so self.default_params is as it was once
\* params has been updated and popped.
DefaultsAfter(defaults, merged) == defaults

\* Line 137 raises UnitConversionError.
UnitErrorIn(merged) ==
    \E key \in ParamKeys : ~Convertible(merged[key].unit, RADEX_IN_UNI[key])

\* Lines 134-138: each grid, converted to the parameter's input unit.
GriddedParams(merged) ==
    [key \in ParamKeys |->
        LET i == CHOOSE j \in DOMAIN ParamOrder : ParamOrder[j] = key
            xs == GridInputs(merged)
        IN [unit  |-> RADEX_IN_UNI[key],
            shape |-> MeshShape(xs),
            data  |-> [idx \in Indices(MeshShape(xs)) |->
                         ConvertTo(MeshGrid(xs, i)[idx], merged[key].unit, RADEX_IN_UNI[key])]]]

\* Line 142: np.zeros(gshape) per output quantity.
ZeroOutputs(shape) == [q \in OutKeys |-> [idx \in Indices(shape) |-> Num(0)]]

\* Lines 144-145 and 212-213: the text handed to the solver for cell idx.
CellInput(template, rest, grids, idx) ==
    LET each == [key \in DOMAIN grids |-> Quantity(grids[key].data[idx], grids[key].unit)]
    IN FormatInput(template, RemoveUnits(each @@ rest))

\* Lines 146-147.
StoreOutput(outs, idx, output) == [q \in OutKeys |-> [outs[q] EXCEPT ![idx] = output[q]]]

\* ResolvedParam without the collapse of a constant parameter to a scalar.
ResolvedParamSqueezed(g) == [unit |-> g.unit] @@ Squeeze(g.shape, g.data)

\* Lines 155-159 for one parameter.
ResolvedParam(g) ==
    IF Cardinality(Unique(g.data)) = 1
    THEN Quantity(CHOOSE v \in Unique(g.data) : TRUE, g.unit)
    ELSE [unit |-> g.unit] @@ Squeeze(g.shape, g.data)

\* Lines 154-159.
ResolvedParams(rest, grids) ==
    [key \in (DOMAIN rest) \cup ParamKeys |->
        IF key \in ParamKeys THEN ResolvedParam(grids[key]) ELSE rest[key]]

\* ResolvedOutputs without the squeeze: the arrays keep the grid's shape.
ResolvedOutputsFullGrid(outs, shape) ==
    [q \in OutKeys |-> [unit |-> RADEX_OUT_UNI[q], shape |-> shape, data |-> outs[q]]]

\* Lines 162-164.
ResolvedOutputs(outs, shape) ==
    [q \in OutKeys |-> [unit |-> RADEX_OUT_UNI[q]] @@ Squeeze(shape, outs[q])]

NoResult == [params |-> <<>>, outputs |-> <<>>]
NoCall == [call |-> [transition |-> <<>>, kwargs |-> <<>>], status |-> "none",
           result |-> NoResult, wrote |-> TRUE]

(***************************************************************************)
(* The calls made on the calculator.  The first call takes any arguments   *)
(* of the sets below, array overrides coming with one of the known         *)
(* transitions; the second repeats it or passes no override; a later call  *)
(* repeats the call before it.                                             *)
(***************************************************************************)
ArraysOf(n) == {[i \in 1..n |-> 1], [i \in 1..n |-> i]}

OverridesFor(key) ==
    IF key \in ParamKeys
    THEN {Quantity(3, RADEX_IN_UNI[key])}
         \cup {Quantity(1, IF key = "T_kin" THEN "kK" ELSE "mm-3")}
         \cup {QArray(vs, RADEX_IN_UNI[key]) : vs \in UNION {ArraysOf(n) : n \in 0..MaxLen}}
         \cup (IF key = "T_kin" THEN {Quantity(1, "cm-3")} ELSE {})
    ELSE {Quantity(1, "K")}

\* A keyword that is no key of RADEX_PARAMS.
KwKeys == ParamKeys \cup {"bogus"}

\* The keyword arguments of a call: an override for any subset of the keys;
\* the unknown keyword comes next to scalar overrides only.
Kwargs ==
    UNION {{kw \in [D -> UNION {OverridesFor(key) : key \in D}] :
               \A key \in D :
                  /\ kw[key] \in OverridesFor(key)
                  /\ ("bogus" \in D) => "values" \notin DOMAIN kw[key]} : D \in SUBSET KwKeys}

\* A transition key the molecular data does not have.
UnknownKey == <<"9", "-", "8">>

GridSize(kw) ==
    Prod([i \in DOMAIN ParamOrder |->
            IF ParamOrder[i] \in DOMAIN kw THEN Len(Flat(kw[ParamOrder[i]])) ELSE 1])

\* The transition the sweeps over array overrides are made for.
SweepKey == <<"2", "-", "1">>

HasArray(kw) == \E key \in DOMAIN kw : "values" \in DOMAIN kw[key]

CallInputs ==
    IF ncalls = 0
    THEN {c \in [transition : (DOMAIN transitions) \cup {UnknownKey},
                 kwargs : {x \in Kwargs : GridSize(x) <= MaxCells}] :
            HasArray(c.kwargs) => c.transition \in {SweepKey, UnknownKey}}
    ELSE IF ncalls = 1
    THEN {call, [transition |-> call.transition, kwargs |-> <<>>]}
    ELSE {call}

Raise(err) ==
    /\ status' = "raised"
    /\ cerr' = err
    /\ cpc' = "idle"
    /\ result' = NoResult
    /\ params' = <<>>
    /\ gparams' = <<>>
    /\ outputs' = <<>>

\* Lines 120-142, up to the loop.
CallBegin(transition, kwargs) ==
    /\ ppc = "constructed"
    /\ cpc = "idle"
    /\ ncalls < MaxCalls
    /\ ncalls' = ncalls + 1
    /\ call' = [transition |-> transition, kwargs |-> kwargs]
    /\ prev' = IF ncalls = 0 THEN NoCall
               ELSE [call |-> call, status |-> status, result |-> result,
                     wrote |-> \A c \in DOMAIN cells : cells[c].kind \notin {"nowrite", "logonly"}]
    /\ filesAtCall' = [out |-> outFile, log |-> logFile]
    /\ cells' = <<>>
    /\ ncell' = 0
    /\ LET fr == FRestOf(transitions, transition)
           merged == MergeParams(default_params, kwargs, fr.f_rest)
       IN IF fr.err # ""
          THEN Raise(fr.err) /\ gshape' = <<>> /\ UNCHANGED default_params
          ELSE IF PopErrorIn(merged)
          THEN Raise("KeyError") /\ gshape' = <<>> /\ UNCHANGED default_params
          ELSE IF UnitErrorIn(merged)
          THEN /\ Raise("UnitConversionError")
               /\ gshape' = <<>>
               /\ default_params' = DefaultsAfter(default_params, merged)
          ELSE /\ cpc' = "sweep"
               /\ default_params' = DefaultsAfter(default_params, merged)
               /\ status' = "running"
               /\ cerr' = ""
               /\ result' = NoResult
               /\ params' = PoppedParams(merged)
               /\ gparams' = GriddedParams(merged)
               /\ gshape' = MeshShape(GridInputs(merged))
               /\ outputs' = ZeroOutputs(MeshShape(GridInputs(merged)))
    /\ UNCHANGED <<parserVars, energy_levels, transitions, radex_input, fileVars, memo,
                   outEofReads>>

\* One iteration of the loop at lines 143-147, _calc_radex included.
SolveCell ==
    /\ cpc = "sweep"
    /\ ncell < Prod(gshape)
    /\ LET idx == Unravel(ncell, gshape)
           inp == CellInput(radex_input, params, gparams, idx)
       IN \E kind \in (IF inp \in DOMAIN memo THEN {memo[inp]} ELSE Kinds) :
            LET r == CalcRadex(kind, inp, outFile, logFile) IN
            /\ memo' = (inp :> kind) @@ memo
            /\ cells' = Append(cells, [idx |-> idx, inp |-> inp, kind |-> kind,
                                       before |-> [out |-> outFile.exists, log |-> logFile],
                                       parsed |-> r.err = "" /\ ~r.hung,
                                       elems |-> r.elems])
            /\ outFile' = r.file
            /\ logFile' = r.log
            /\ IF r.err # ""
               THEN Raise(r.err) /\ UNCHANGED ncell
               ELSE IF r.hung
               THEN /\ cpc' = "reading"
                    /\ UNCHANGED <<status, cerr, result, params, gparams, outputs, ncell>>
               ELSE /\ outputs' = StoreOutput(outputs, idx, r.output)
                    /\ ncell' = ncell + 1
                    /\ UNCHANGED <<cpc, status, cerr, result, params, gparams>>
    /\ UNCHANGED <<parserVars, fieldVars, ncalls, call, gshape, outEofReads, filesAtCall, prev>>

\* One more iteration of the loop at lines 219-220, at the end of a file
\* that has no line matching the pattern.
ReadPastEnd ==
    /\ cpc = "reading"
    /\ outEofReads' = Min(outEofReads + 1, MaxEofReads)
    /\ UNCHANGED <<parserVars, fieldVars, fileVars, callVars, memo, cells, filesAtCall, prev>>

\* Lines 149-166, once the loop is over.
CallFinish ==
    /\ cpc = "sweep"
    /\ ncell = Prod(gshape)
    /\ IF ~outFile.exists
       THEN Raise("FileNotFoundError") /\ UNCHANGED fileVars
       ELSE IF ~logFile
       THEN Raise("FileNotFoundError") /\ outFile' = Absent /\ UNCHANGED logFile
       ELSE /\ outFile' = Absent
            /\ logFile' = FALSE
            /\ result' = [params |-> ResolvedParams(params, gparams),
                          outputs |-> ResolvedOutputs(outputs, gshape)]
            /\ status' = "returned"
            /\ cpc' = "idle"
            /\ cerr' = ""
            /\ params' = <<>>
            /\ gparams' = <<>>
            /\ outputs' = <<>>
    /\ UNCHANGED <<parserVars, fieldVars, ncalls, call, gshape, ncell, histVars>>

(***************************************************************************)
(* The calculator of the sweeps: RADEX('CO') constructed from MolData.     *)
(***************************************************************************)
MolData == MolStream(2, [levels |-> << <<"0">>, <<"1">>, <<"2">> >>,
                         trans |-> << <<2, 1>>, <<3, 2>> >>])

\* Where the loop at lines 171-172 (191-192) leaves f.
HeaderEnd(s, pos, pat) == FirstOf({h \in (pos + 1)..Len(s) : PatSearch(pat, s[h])})

LevelsOf(s) == GetEnergyLevelsBody(s, HeaderEnd(s, 0, PatEnergyLevels))

TransitionsOf(s) ==
    GetTransitionsBody(s, HeaderEnd(s, LevelsOf(s).pos, PatTransitions), LevelsOf(s).table)

\* self._energy_levels and self._transitions of that calculator.
MolLevels == LevelsOf(MolData).table
MolTransitions == TransitionsOf(MolData).table

NoCallYet ==
    /\ default_params = RADEX_PARAMS
    /\ radex_input = RADEX_INPUT
    /\ cpc = "idle"
    /\ ncalls = 0
    /\ call = NoCall.call
    /\ status = "none"
    /\ cerr = ""
    /\ params = <<>>
    /\ gparams = <<>>
    /\ gshape = <<>>
    /\ ncell = 0
    /\ outputs = <<>>
    /\ result = NoResult
    /\ memo = <<>>
    /\ cells = <<>>
    /\ outEofReads = 0
    /\ prev = NoCall

Init ==
    /\ stream = MolData
    /\ fpos = TransitionsOf(MolData).pos
    /\ ppc = "constructed"
    /\ perr = ""
    /\ eofReads = 0
    /\ levelsEnd = LevelsOf(MolData).pos
    /\ energy_levels = MolLevels
    /\ transitions = MolTransitions
    /\ NoCallYet
    /\ \/ outFile = Absent /\ logFile = FALSE
       \/ outFile = StaleOutput /\ logFile = TRUE
    /\ filesAtCall = [out |-> outFile, log |-> logFile]

Next ==
    \/ \E c \in CallInputs : CallBegin(c.transition, c.kwargs)
    \/ SolveCell
    \/ ReadPastEnd
    \/ CallFinish

Spec == Init /\ [][Next]_vars

InitParse ==
    /\ stream \in Streams
    /\ fpos = 0
    /\ ppc = "levels_scan"
    /\ perr = ""
    /\ eofReads = 0
    /\ levelsEnd = -1
    /\ energy_levels = NoTable
    /\ transitions = NoTable
    /\ NoCallYet
    /\ outFile = Absent
    /\ logFile = FALSE
    /\ filesAtCall = [out |-> outFile, log |-> logFile]

NextParse ==
    \/ ScanEnergyLevelsHeader
    \/ ReadEnergyLevels
    \/ ScanTransitionsHeader
    \/ ReadTransitions

SpecParse == InitParse /\ [][NextParse]_vars

(***************************************************************************)
(* The claims.                                                             *)
(***************************************************************************)
\* Some keyword of the call begun last is no key of RADEX_PARAMS.
InvalidOverride == \E key \in DOMAIN call.kwargs : key \notin DOMAIN RADEX_PARAMS

\* C1: a call with a keyword that is no key of the default parameter set
\* fails, and the solver is run zero times during it.
C1_InvalidOverrideRejected ==
    (ncalls > 0 /\ InvalidOverride) => (cells = <<>> /\ status # "returned")

\* The transition of the call begun last is not among the parsed ones.
UnknownTransition == ncalls > 0 /\ call.transition \notin DOMAIN transitions

\* C2: a call with an unknown transition fails with the unknown-key error
\* before the solver is run and with the output and log files as they were.
C2_UnknownTransitionFailsFirst ==
    UnknownTransition =>
        /\ status = "raised"
        /\ cerr = "KeyError"
        /\ cpc = "idle"
        /\ cells = <<>>
        /\ outFile = filesAtCall.out
        /\ logFile = filesAtCall.log

\* A call with an unknown transition has failed while the solver's files
\* of an earlier session lie on disk.
C2_Witness ==
    /\ UnknownTransition
    /\ status = "raised"
    /\ outFile = StaleOutput
    /\ logFile

\* C3: a header scan that reaches end-of-stream ends there with an error; it
\* does not read on.
C3_HeaderScanStopsAtEnd == eofReads >= 1 => (ppc = "failed" /\ eofReads = 1)

\* The result line of a solver run lacks the p-th quantity's field, or the
\* field is no number.
BadField(elems, p) == Len(elems) < p + 3 \/ ~IsNumber(elems[p + 3])

\* The entry of a returned array that belongs to the cell of run c.
EntryOf(arr, c) == arr.data[SqueezeIdx(cells[c].idx, gshape)]

\* C4: a result line with a missing or non-numeric field never makes the
\* call fail; the call returns one entry per grid cell, not-a-number where
\* the cell's field was bad and the parsed number everywhere else.
C4_BadFieldIsNaN ==
    /\ \A c \in DOMAIN cells, p \in DOMAIN OutOrder :
        (cells[c].parsed /\ BadField(cells[c].elems, p)) => ncell >= c
    /\ status = "returned" =>
        /\ Len(cells) = Prod(gshape)
        /\ \A p \in DOMAIN OutOrder :
            LET arr == result.outputs[OutOrder[p]] IN
            /\ Cardinality(DOMAIN arr.data) = Prod(gshape)
            /\ \A c \in DOMAIN cells :
                EntryOf(arr, c) = IF BadField(cells[c].elems, p) THEN NaN
                                  ELSE Num(NumberOf(cells[c].elems[p + 3]))

\* A sweep has returned in which a cell before the last had a bad field.
C4_Witness ==
    /\ status = "returned"
    /\ Len(cells) >= 2
    /\ \E c \in 1..(Len(cells) - 1) : BadField(cells[c].elems, 1) /\ ~BadField(cells[c].elems, 2)
    /\ ~BadField(cells[Len(cells)].elems, 1)

\* The lengths of the array-valued parameters of the call, in the order of
\* the parameter names.
ArrayLens ==
    LET keys == SelectSeq(ParamOrder,
                    LAMBDA key : key \in DOMAIN call.kwargs /\ "values" \in DOMAIN call.kwargs[key])
    IN [j \in DOMAIN keys |-> Len(call.kwargs[keys[j]].values)]

\* C5 as claimed: the solver is run once per combination, and every output
\* array has the shape of the array-valued parameters' lengths.
C5_ShapeIsArrayLengths ==
    status = "returned" =>
        /\ Len(cells) = Prod(ArrayLens)
        /\ \A q \in OutKeys : result.outputs[q].shape = ArrayLens

\* C5 as amended: every output array has the shape of the array-valued
\* parameters' lengths with the lengths equal to 1 left out.
C5_ShapeIsSqueezedLengths ==
    status = "returned" =>
        /\ Len(cells) = Prod(ArrayLens)
        /\ \A q \in OutKeys :
            result.outputs[q].shape = SelectSeq(ArrayLens, LAMBDA n : n # 1)
        /\ ArrayLens = <<>> =>
            /\ Len(cells) = 1
            /\ \A q \in OutKeys : result.outputs[q].shape = <<>>

\* A sweep over a one-element array and a two-element array has returned.
C5_Witness == status = "returned" /\ ArrayLens = <<1, 2>>

\* The value of parameter key in the text handed to the solver at run c.
UsedValue(c, key) == NumberOf(InputField(cells[c].inp, key))

\* C6: a parameter is reported as a scalar exactly when the cells used one
\* and the same value for it, and as the squeezed array of the cells'
\* values otherwise.
C6_ConstantParamIsScalar ==
    status = "returned" =>
        \A key \in ParamKeys :
            LET used == {UsedValue(c, key) : c \in DOMAIN cells}
                rep == result.params[key]
            IN /\ ("value" \in DOMAIN rep) <=> (Cardinality(used) = 1)
               /\ "value" \in DOMAIN rep => used = {rep.value}
               /\ "value" \notin DOMAIN rep =>
                    /\ rep.shape = SqueezeShape(gshape)
                    /\ \A c \in DOMAIN cells : EntryOf(rep, c) = UsedValue(c, key)

\* A sweep over a constant array and a varying array has returned.
C6_Witness ==
    /\ status = "returned"
    /\ "T_kin" \in DOMAIN call.kwargs
    /\ call.kwargs["T_kin"] = QArray(<<1, 1>>, "K")
    /\ "value" \in DOMAIN result.params["T_kin"]
    /\ "value" \notin DOMAIN result.params["n_H2"]

\* The call before this one returned and had the same arguments.  The
\* solver is a function of its input in every behaviour (memo).
RepeatedCall == ncalls >= 2 /\ call = prev.call /\ prev.status = "returned"

\* C7: a call repeated with the same arguments against the same solver
\* does not fail, and returns what the first call returned.
C7_RepeatedCallSameResult ==
    RepeatedCall =>
        /\ status # "raised"
        /\ status = "returned" => result = prev.result

\* The line of the stream that holds the 'energy levels' header.
LevelsHeader == HeaderEnd(stream, 0, PatEnergyLevels)

\* The count the levels section declares.
DeclaredLevels == NumberOf(stream[LevelsHeader + 1][1])

\* C8: on a well-formed stream _get_energy_levels ends right after the N
\* level lines and returns entries 1..N, each from fields 2, 3 and 4 of its
\* line, each with a positive weight.
C8_LevelsTableMatchesFile ==
    stream \in WellFormedStreams =>
        /\ perr = ""
        /\ levelsEnd >= 0 =>
            /\ levelsEnd = LevelsHeader + 2 + DeclaredLevels
            /\ DOMAIN energy_levels = 1..DeclaredLevels
            /\ \A i \in 1..DeclaredLevels :
                LET line == stream[LevelsHeader + 2 + i] IN
                /\ energy_levels[i].energy.value = NumberOf(line[2])
                /\ energy_levels[i].weight.value = NumberOf(line[3])
                /\ energy_levels[i].weight.value > 0
                /\ energy_levels[i].level = line[4]

\* A well-formed stream of two or more levels has been parsed.
C8_Witness ==
    /\ stream \in WellFormedStreams
    /\ ppc = "constructed"
    /\ Len(energy_levels) >= 2

\* The line of the stream that holds the 'radiative transitions' header.
TransHeader == HeaderEnd(stream, levelsEnd, PatTransitions)

\* C9: on a well-formed stream every transition key is the label of the
\* upper level, a dash, and the label of the lower level of one of the
\* transition lines, both looked up in the level table.
C9_KeysAreLevelLabels ==
    (stream \in WellFormedStreams /\ ppc = "constructed") =>
        \A key \in DOMAIN transitions :
            \E j \in 1..NumberOf(stream[TransHeader + 1][1]) :
                LET line == stream[TransHeader + 2 + j]
                    upper == NumberOf(line[2])
                    lower == NumberOf(line[3])
                IN /\ upper \in DOMAIN energy_levels
                   /\ lower \in DOMAIN energy_levels
                   /\ key = energy_levels[upper].level \o <<"-">> \o energy_levels[lower].level

\* A well-formed stream with a transition between two labels has been parsed.
C9_Witness ==
    /\ stream \in WellFormedStreams
    /\ ppc = "constructed"
    /\ <<"1", "-", "0">> \in DOMAIN transitions

\* C10: a solver that fails to launch ends the call with the error: the
\* failed run is the last run of the call and the call returns nothing.
C10_LaunchFailureIsFatal ==
    \A c \in DOMAIN cells :
        cells[c].kind = "launchfail" =>
            /\ c = Len(cells)
            /\ status = "raised"
            /\ cerr = "OSError"
            /\ cpc = "idle"
            /\ result = NoResult

\* The solver failed to launch at a cell after the first and before the last.
C10_Witness ==
    /\ Len(cells) >= 2
    /\ cells[Len(cells)].kind = "launchfail"
    /\ Len(cells) < Prod(gshape)

\* The values the call gives parameter key, in the parameter's input unit:
\* those of the override if there is one, of the stored default if not.
ValuesOf(key) ==
    LET q == IF key \in DOMAIN call.kwargs THEN call.kwargs[key] ELSE default_params[key]
    IN [j \in DOMAIN Flat(q) |-> ConvertTo(Flat(q)[j], q.unit, RADEX_IN_UNI[key])]

\* The number of values of each parameter, in the order of the names.
GridLens == [i \in DOMAIN ParamOrder |-> Len(ValuesOf(ParamOrder[i]))]

\* Index tuple a comes before b in lexicographic order.
LexLess(a, b) ==
    \E i \in DOMAIN a : a[i] < b[i] /\ \A j \in 1..(i - 1) : a[j] = b[j]

\* What the result line of run c gives the p-th output quantity.
ParsedAt(c, p) ==
    IF BadField(cells[c].elems, p) THEN NaN ELSE Num(NumberOf(cells[c].elems[p + 3]))

\* C11: the runs of a sweep take the coordinates of the grid in increasing
\* lexicographic order, the first parameter name on the slowest axis; the
\* run at coordinate idx is given, for every parameter, the idx-th value of
\* that parameter (the outer product); its result is stored at idx of every
\* output array; a sweep that returns has run every coordinate once.
C11_RowMajorOuterProduct ==
    /\ \A c \in DOMAIN cells :
        /\ DOMAIN cells[c].idx = DOMAIN ParamOrder
        /\ \A i \in DOMAIN ParamOrder :
            /\ cells[c].idx[i] \in 0..(GridLens[i] - 1)
            /\ UsedValue(c, ParamOrder[i]) = ValuesOf(ParamOrder[i])[cells[c].idx[i] + 1]
        /\ \A d \in DOMAIN cells : c < d => LexLess(cells[c].idx, cells[d].idx)
        /\ (cpc = "sweep" /\ c <= ncell) =>
            \A p \in DOMAIN OutOrder : outputs[OutOrder[p]][cells[c].idx] = ParsedAt(c, p)
    /\ status = "returned" =>
        /\ Len(cells) = Prod(GridLens)
        /\ \A c \in DOMAIN cells, p \in DOMAIN OutOrder :
            EntryOf(result.outputs[OutOrder[p]], c) = ParsedAt(c, p)

\* A sweep over two values of each of the two parameters has returned.
C11_Witness ==
    /\ status = "returned"
    /\ GridLens = <<2, 2>>
    /\ ValuesOf("T_kin") = <<1, 2>>
    /\ ValuesOf("n_H2") = <<1, 2>>
    /\ \A c \in DOMAIN cells : ~BadField(cells[c].elems, 1)

\* C12: in a sweep over more than one cell, when the solver is started for
\* a cell after the first neither the output file nor the log file exists:
\* those of the cell before have been deleted.
C12_FilesDeletedPerCell ==
    \A c \in DOMAIN cells :
        c >= 2 => (~cells[c].before.out /\ ~cells[c].before.log)

\* The solver wrote the output file at run c.
WroteOutput(c) == FileAfterRun(cells[c].kind, cells[c].inp, Absent).exists

\* C13: no cell records values parsed from content that the run of an
\* earlier cell wrote: a cell whose run wrote no output file parses nothing
\* when a cell before it wrote one.
C13_NoStaleRead ==
    \A c \in DOMAIN cells :
        (cells[c].parsed /\ ~WroteOutput(c)) => ~\E b \in 1..(c - 1) : WroteOutput(b)

\* A step removes the output file or the log file.
FileRemoved ==
    \/ outFile.exists /\ ~outFile'.exists
    \/ logFile /\ ~logFile'

\* C14: a step removes a file only when every solver run of the call has had
\* its output read and parsed: not while a read is under way, and not in a
\* step that ends the call with an error of a run.
C14_RemovalOnlyAfterRead ==
    [][FileRemoved =>
        /\ cpc = "sweep"
        /\ cells' = cells
        /\ \A c \in DOMAIN cells : cells[c].parsed]_vars

\* A call has failed reading a run's output and the log file is still there,
\* after a call whose files were removed on return.
C14_Witness ==
    /\ prev.status = "returned"
    /\ status = "raised"
    /\ cerr = "FileNotFoundError"
    /\ cells # <<>>
    /\ ~cells[Len(cells)].parsed
    /\ logFile

\* The configured default of parameter key, in the parameter's input unit.
ConfiguredDefault(key) ==
    ConvertTo(RADEX_PARAMS[key].value, RADEX_PARAMS[key].unit, RADEX_IN_UNI[key])

\* C15: no call changes the stored defaults, the input template or the
\* parsed tables, and every run of a call without overrides is given the
\* configured default of every parameter, whatever the calls before it
\* overrode.
C15_OverridesDoNotPersist ==
    /\ default_params = RADEX_PARAMS
    /\ radex_input = RADEX_INPUT
    /\ energy_levels = MolLevels
    /\ transitions = MolTransitions
    /\ (ncalls >= 1 /\ call.kwargs = <<>>) =>
        \A c \in DOMAIN cells, key \in ParamKeys : UsedValue(c, key) = ConfiguredDefault(key)

\* A call without overrides has returned after a call that overrode both
\* parameters returned.
C15_Witness ==
    /\ ncalls >= 2
    /\ prev.status = "returned"
    /\ DOMAIN prev.call.kwargs = ParamKeys
    /\ call.kwargs = <<>>
    /\ status = "returned"
    /\ cells # <<>>

\* The lines of the output file that contain 'calculation finished' in any
\* letter case.
MarkerLines == {m \in DOMAIN outFile.lines : PatSearch(PatFinished, outFile.lines[m])}

\* The line three after the first marker line, split into fields; no field
\* when the file ends before it.
ResultRow ==
    LET m == CHOOSE x \in MarkerLines : \A y \in MarkerLines : x <= y
    IN IF m + 3 <= Len(outFile.lines) THEN outFile.lines[m + 3] ELSE <<>>

\* The loop has just stored the output of the last run, whose file is still
\* on disk.
JustParsed ==
    /\ cpc = "sweep"
    /\ cells # <<>>
    /\ ncell = Len(cells)
    /\ outFile.exists

\* C16: the values stored for a run are those of the line three after the
\* first 'calculation finished' line of the output file: the i-th output
\* quantity (i from 0) is the field at position 3+i of that line, counted
\* from 0, or not-a-number when that field is missing or no number.
C16_OutputFieldsByPosition ==
    JustParsed =>
        /\ MarkerLines # {}
        /\ \A p \in DOMAIN OutOrder :
            outputs[OutOrder[p]][cells[Len(cells)].idx] =
                IF Len(ResultRow) >= p + 3 /\ IsNumber(ResultRow[p + 3])
                THEN Num(NumberOf(ResultRow[p + 3]))
                ELSE NaN

\* A run has been parsed whose output file holds two calculations, and one
\* whose result line holds a number for every quantity.
C16_Witness ==
    /\ JustParsed
    /\ Cardinality(MarkerLines) = 2
    /\ \E c \in DOMAIN cells : \A p \in DOMAIN OutOrder : ~BadField(cells[c].elems, p)

\* C17: the scan of the output file ends whatever the file holds: no
\* readline() is made at the end of a file that has no 'calculation
\* finished' line while the call goes on; the call has raised by then.
C17_OutputScanStopsAtEnd == outEofReads >= 1 => (status = "raised" /\ cpc = "idle")

\* The count the transitions section declares.
DeclaredTransitions == NumberOf(stream[TransHeader + 1][1])

\* The levels the j-th transition line names: upper, lower.
LevelsNamed(j) ==
    LET line == stream[TransHeader + 2 + j] IN <<NumberOf(line[2]), NumberOf(line[3])>>

\* No two transition lines name the same pair of levels.
DistinctLines ==
    \A i, j \in 1..DeclaredTransitions : i # j => LevelsNamed(i) # LevelsNamed(j)

\* C18: the table built from a section of M transition lines, no two of
\* them between the same pair of levels, has M entries.
C18_OneEntryPerLine ==
    (stream \in WellFormedStreams /\ ppc = "constructed" /\ DistinctLines) =>
        Cardinality(DOMAIN transitions) = DeclaredTransitions

\* C19: in what a call returns, a parameter reported as an array has the
\* shape and the index set of every output array, and its entry at an index
\* is the value given to the solver run whose result is at that index of
\* the output arrays.
C19_ParamArraysMatchOutputs ==
    status = "returned" =>
        \A key \in ParamKeys :
            LET rep == result.params[key] IN
            "shape" \in DOMAIN rep =>
                /\ \A q \in OutKeys :
                    /\ rep.shape = result.outputs[q].shape
                    /\ DOMAIN rep.data = DOMAIN result.outputs[q].data
                /\ \A c \in DOMAIN cells :
                    LET t == SqueezeIdx(cells[c].idx, gshape) IN
                    /\ rep.data[t] = UsedValue(c, key)
                    /\ \A p \in DOMAIN OutOrder :
                        result.outputs[OutOrder[p]].data[t] = ParsedAt(c, p)

\* A sweep over two temperatures at one density has returned: the
\* temperature is reported as an array, the grid has an axis of length 1.
C19_Witness ==
    /\ status = "returned"
    /\ GridLens = <<2, 1>>
    /\ "shape" \in DOMAIN result.params["T_kin"]
    /\ "value" \in DOMAIN result.params["n_H2"]

====
